---- MODULE Spec2Model ----
(***************************************************************************)
(* onedigit: expressions built from one digit (1..9) and the operators     *)
(* + - * / ^ ! sqrt, keeping for every value the cheapest expression.      *)
(*                                                                         *)
(* Strings are modelled as sequences of one-character strings, so that     *)
(* str(), concatenation, the " " test of the parenthesis rule and the      *)
(* count of digit characters are computed, not assumed.                    *)
(***************************************************************************)
EXTENDS Integers, Sequences, FiniteSets, TLC

VARIABLES
    digit,      \* Model.digit
    max_value,  \* Model.max_value
    max_cost,   \* Model.max_cost
    state,      \* Model.state: dict[int, Combo], a function on its keys
    pc,         \* position of the caller
    max_steps,  \* advance(): max_steps
    returns,    \* advance(): the values returned by the simulate() calls so far
    known,      \* simulate(): the snapshot list of the last round
    evaluated,  \* simulate(): <<c1.value, c2.value, op>> of every binary application of the last round
    result,     \* what the last call returned to its caller
    accepted,   \* the value the last state_update() call returned
    offered,    \* history: value -> least cost of the records offered to the model for it
    calls,      \* number of calls made on the model since it was seeded
    later,      \* number of simulate() calls made after advance() returned
    request,    \* the arguments of the call: digit, max_value, max_cost, max_steps, input_json
    raised      \* the exception the last call raised, "none" if it returned

vars == <<digit, max_value, max_cost, state, pc, max_steps, returns, known, evaluated,
          result, accepted, offered, calls, later, request, raised>>

----------------------------------------------------------------------------
(* Bounds of the model *)

MaxValue == 10      \* largest max_value tried
MaxCost == 4        \* largest max_cost tried
MaxSteps == 5       \* largest max_steps tried
ApiMaxValue == 2    \* largest max_value tried under Spec
ApiMaxCost == 2     \* largest max_cost tried under Spec
MaxCalls == 2       \* longest sequence of calls tried under Spec
MaxLater == 1       \* simulate() calls tried after advance() returned

(* Program constants *)

MinDigit == 1
MaxDigit == 9
ValueCeiling == 1000000
CostCeiling == 30
InfCost == 1000000000
FactorialLimit == 20
ExponentLimit == 40

Digits == MinDigit..MaxDigit

----------------------------------------------------------------------------
(* Strings *)

DigitChars == <<"0", "1", "2", "3", "4", "5", "6", "7", "8", "9">>

RECURSIVE StrNat(_)
StrNat(n) ==
    IF n < 10 THEN <<DigitChars[n + 1]>>
    ELSE StrNat(n \div 10) \o <<DigitChars[(n % 10) + 1]>>

\* str(int)
Str(n) == IF n < 0 THEN <<"-">> \o StrNat(0 - n) ELSE StrNat(n)

\* " " in s
HasSpace(s) == \E i \in 1..Len(s) : s[i] = " "

\* "Only use parenthesis for cases it helps (if expression has spaces)"
Paren(s) == IF HasSpace(s) THEN <<"(">> \o s \o <<")">> ELSE s

\* the one character U+221A (square root sign) of the "sqrt" renderings
RootSign == "v"

\* s.count(ch)
Count(s, ch) == Cardinality({i \in 1..Len(s) : s[i] = ch})

----------------------------------------------------------------------------
(* Arithmetic.  Python integers are unbounded; results above every         *)
(* admissible max_value are represented by the single value TooLarge.      *)

TooLarge == ValueCeiling + 1

SatMul(a, b) ==
    IF a = 0 \/ b = 0 THEN 0
    ELSE IF a >= TooLarge \/ b >= TooLarge \/ a > ValueCeiling \div b THEN TooLarge
    ELSE a * b

RECURSIVE Factorial(_)
Factorial(n) == IF n = 0 THEN 1 ELSE SatMul(n, Factorial(n - 1))

RECURSIVE Power(_, _)
Power(a, b) == IF b = 0 THEN 1 ELSE SatMul(a, Power(a, b - 1))

\* math.isqrt
Isqrt(n) == CHOOSE r \in 0..n : r * r <= n /\ (r + 1) * (r + 1) > n

\* a // b and a % b of Python integers, b other than 0: the quotient is
\* rounded down and the remainder has the sign of b
PyFloorDiv(a, b) == a \div b
PyMod(a, b) == a - b * (a \div b)

\* Exact integers, as sequences of decimal digits with the units first.
RECURSIVE MulCarry(_, _, _, _)
MulCarry(digs, k, i, carry) ==
    IF i > Len(digs)
    THEN IF carry = 0 THEN <<>>
         ELSE <<carry % 10>> \o MulCarry(digs, k, i, carry \div 10)
    ELSE <<(digs[i] * k + carry) % 10>>
         \o MulCarry(digs, k, i + 1, (digs[i] * k + carry) \div 10)

\* digs * k for an integer k >= 0
BigMul(digs, k) == IF k = 0 \/ digs = <<0>> THEN <<0>> ELSE MulCarry(digs, k, 1, 0)

\* math.factorial(n), exactly
RECURSIVE BigFactorial(_)
BigFactorial(n) == IF n = 0 THEN <<1>> ELSE BigMul(BigFactorial(n - 1), n)

\* a ** b for integers a >= 0 and b >= 0, exactly
RECURSIVE BigPower(_, _)
BigPower(a, b) == IF b = 0 THEN <<1>> ELSE BigMul(BigPower(a, b - 1), a)

\* str() of an exact integer
BigText(digs) == [i \in 1..Len(digs) |-> DigitChars[digs[Len(digs) + 1 - i] + 1]]

RECURSIVE BigNat(_, _)
BigNat(digs, i) == IF i > Len(digs) THEN 0 ELSE digs[i] + 10 * BigNat(digs, i + 1)

\* the representation of an exact integer among the values of the model
BigValue(digs) ==
    IF Len(digs) > Len(StrNat(ValueCeiling)) THEN TooLarge
    ELSE IF BigNat(digs, 1) > ValueCeiling THEN TooLarge
    ELSE BigNat(digs, 1)

----------------------------------------------------------------------------
(* Combo *)

\* the constructor without __post_init__'s "if self.cost == 0"
Combo_cost_kept(value, cost, expr_full, expr_simple) ==
    [value |-> value,
     cost |-> cost,
     expr_full |-> IF expr_full = <<>> THEN Str(value) ELSE expr_full,
     expr_simple |-> IF expr_simple = <<>> THEN Str(value) ELSE expr_simple]

\* dataclass constructor followed by __post_init__
Combo(value, cost, expr_full, expr_simple) ==
    [value |-> value,
     cost |-> IF cost = 0 THEN InfCost ELSE cost,
     expr_full |-> IF expr_full = <<>> THEN Str(value) ELSE expr_full,
     expr_simple |-> IF expr_simple = <<>> THEN Str(value) ELSE expr_simple]

\* Combo(value=0): "a Combo object that evaluates to zero"
ZeroCombo == Combo(0, 0, <<>>, <<>>)

\* Combo.unary_operation (model.py), the method Model.simulate calls
unary_operation(c, op) ==
    LET value1_expr_full == Paren(c.expr_full) IN
    CASE op = "!" ->
           IF c.value < 0 \/ c.value > FactorialLimit THEN ZeroCombo
           ELSE Combo(Factorial(c.value), c.cost,
                      value1_expr_full \o <<"!">>, Str(c.value) \o <<"!">>)
      [] op = "sqrt" ->
           IF c.value < 0 THEN ZeroCombo
           ELSE IF Isqrt(c.value) * Isqrt(c.value) # c.value THEN ZeroCombo
           ELSE Combo(Isqrt(c.value), c.cost,
                      <<RootSign, "(">> \o value1_expr_full \o <<")">>,
                      <<RootSign, "(">> \o Str(c.value) \o <<")">>)

\* f"{a} op {b}"
Infix(a, op, b) == a \o <<" ", op, " ">> \o b

\* binary_operation charging the first operand's cost only
binary_operation_first_cost(c, combo2, op) ==
    LET cost == c.cost
        full == Infix(Paren(c.expr_full), op, Paren(combo2.expr_full))
        simple == Infix(Str(c.value), op, Str(combo2.value))
    IN
    CASE op = "+" -> Combo(c.value + combo2.value, cost, full, simple)
      [] op = "-" -> Combo(c.value - combo2.value, cost, full, simple)
      [] op = "*" -> Combo(c.value * combo2.value, cost, full, simple)
      [] op = "/" /\ combo2.value # 0 ->
           IF c.value % combo2.value # 0 THEN ZeroCombo
           ELSE Combo(c.value \div combo2.value, cost, full, simple)
      [] op = "^" /\ (c.value < 0 \/ combo2.value > ExponentLimit) -> ZeroCombo
      [] op = "^" /\ c.value >= 0 /\ combo2.value \in 0..ExponentLimit ->
           Combo(Power(c.value, combo2.value), cost, full, simple)

\* Combo.binary_operation (model.py), the method Model.simulate calls, where
\* it returns an integer record: "/" for a divisor other than 0 and "^" for
\* an exponent >= 0 or a base < 0.  Combo_binary_operation below gives the
\* outcome for every pair of operands.
binary_operation(c, combo2, op) ==
    LET cost == c.cost + combo2.cost
        value1_expr_full == Paren(c.expr_full)
        value2_expr_full == Paren(combo2.expr_full)
        full == Infix(value1_expr_full, op, value2_expr_full)
        simple == Infix(Str(c.value), op, Str(combo2.value))
    IN
    CASE op = "+" -> Combo(c.value + combo2.value, cost, full, simple)
      [] op = "-" -> Combo(c.value - combo2.value, cost, full, simple)
      [] op = "*" -> Combo(c.value * combo2.value, cost, full, simple)
      [] op = "/" /\ combo2.value # 0 ->
           IF PyMod(c.value, combo2.value) # 0 THEN ZeroCombo
           ELSE Combo(PyFloorDiv(c.value, combo2.value), cost, full, simple)
      [] op = "^" /\ (c.value < 0 \/ combo2.value > ExponentLimit) -> ZeroCombo
      [] op = "^" /\ c.value >= 0 /\ combo2.value \in 0..ExponentLimit ->
           Combo(Power(c.value, combo2.value), cost, full, simple)

----------------------------------------------------------------------------
(* operations.py, and the outcome of Combo.binary_operation (model.py) for *)
(* every pair of operands.  An outcome is [exc, float, combo, exact]: the  *)
(* exception raised or "none", whether the value of the record is a float, *)
(* the record returned, and str() of its value as Python computes it.      *)

UnaryOps == {"!", "sqrt"}
BinaryOps == {"+", "-", "*", "/", "^"}

OpReturned(combo, exact) ==
    [exc |-> "none", float |-> FALSE, combo |-> combo, exact |-> exact]

OpRaised(e) == [exc |-> e, float |-> FALSE, combo |-> ZeroCombo, exact |-> <<>>]

\* return Combo(value=0)
OpSentinel == OpReturned(ZeroCombo, Str(0))

\* case "!" with value > 20 written value >= 20
ops_factorial_below_limit(combo1, value1_expr_full) ==
    IF combo1.value < 0 \/ combo1.value >= FactorialLimit THEN OpSentinel
    ELSE OpReturned(Combo(Factorial(combo1.value), combo1.cost,
                          value1_expr_full \o <<"!">>, Str(combo1.value) \o <<"!">>),
                    BigText(BigFactorial(combo1.value)))

\* case "!" of operations.unary_operation
ops_factorial(combo1, value1_expr_full) ==
    IF combo1.value < 0 \/ combo1.value > FactorialLimit THEN OpSentinel
    ELSE OpReturned(Combo(Factorial(combo1.value), combo1.cost,
                          value1_expr_full \o <<"!">>, Str(combo1.value) \o <<"!">>),
                    BigText(BigFactorial(combo1.value)))

\* case "sqrt" of operations.unary_operation
ops_sqrt(combo1, value1_expr_full) ==
    IF combo1.value < 0 THEN OpSentinel
    ELSE IF Isqrt(combo1.value) * Isqrt(combo1.value) # combo1.value THEN OpSentinel
    ELSE OpReturned(Combo(Isqrt(combo1.value), combo1.cost,
                          <<RootSign, "(">> \o value1_expr_full \o <<")">>,
                          <<RootSign, "(">> \o Str(combo1.value) \o <<")">>),
                    Str(Isqrt(combo1.value)))

\* operations.unary_operation
ops_unary_operation(combo1, op) ==
    CASE op = "!" -> ops_factorial(combo1, Paren(combo1.expr_full))
      [] op = "sqrt" -> ops_sqrt(combo1, Paren(combo1.expr_full))
      [] OTHER -> OpRaised("ValueError")

\* case "/" returning the sentinel for a divisor of value 0
ops_divide_zero_sentinel(combo1, combo2, cost, full, simple) ==
    IF combo2.value = 0 THEN OpSentinel
    ELSE IF PyMod(combo1.value, combo2.value) # 0 THEN OpSentinel
    ELSE OpReturned(Combo(PyFloorDiv(combo1.value, combo2.value), cost, full, simple),
                    Str(PyFloorDiv(combo1.value, combo2.value)))

\* case "/" without the test of the remainder
ops_divide_rounding(combo1, combo2, cost, full, simple) ==
    IF combo2.value = 0 THEN OpRaised("ZeroDivisionError")
    ELSE OpReturned(Combo(PyFloorDiv(combo1.value, combo2.value), cost, full, simple),
                    Str(PyFloorDiv(combo1.value, combo2.value)))

\* case "/" of operations.binary_operation; combo1.value % 0 raises
ops_divide(combo1, combo2, cost, full, simple) ==
    IF combo2.value = 0 THEN OpRaised("ZeroDivisionError")
    ELSE IF PyMod(combo1.value, combo2.value) # 0 THEN OpSentinel
    ELSE OpReturned(Combo(PyFloorDiv(combo1.value, combo2.value), cost, full, simple),
                    Str(PyFloorDiv(combo1.value, combo2.value)))

\* case "^" of operations.binary_operation
ops_power(combo1, combo2, cost, full, simple) ==
    IF combo1.value < 0 \/ combo2.value > ExponentLimit THEN OpSentinel
    ELSE IF combo2.value < 0 THEN OpSentinel
    ELSE OpReturned(Combo(Power(combo1.value, combo2.value), cost, full, simple),
                    BigText(BigPower(combo1.value, combo2.value)))

\* operations.binary_operation
ops_binary_operation(combo1, combo2, op) ==
    LET cost == combo1.cost + combo2.cost
        full == Infix(Paren(combo1.expr_full), op, Paren(combo2.expr_full))
        simple == Infix(Str(combo1.value), op, Str(combo2.value))
    IN
    CASE op = "+" -> OpReturned(Combo(combo1.value + combo2.value, cost, full, simple),
                                Str(combo1.value + combo2.value))
      [] op = "-" -> OpReturned(Combo(combo1.value - combo2.value, cost, full, simple),
                                Str(combo1.value - combo2.value))
      [] op = "*" -> OpReturned(Combo(combo1.value * combo2.value, cost, full, simple),
                                Str(combo1.value * combo2.value))
      [] op = "/" -> ops_divide(combo1, combo2, cost, full, simple)
      [] op = "^" -> ops_power(combo1, combo2, cost, full, simple)
      [] OTHER -> OpRaised("ValueError")

\* self.value ** combo2.value for self.value >= 0 and combo2.value < 0, as
\* Combo.binary_operation (model.py) evaluates it after its one test: base 0
\* raises, any other base gives the float 1 / self.value ** -combo2.value
Combo_power_float(c, combo2) ==
    IF c.value = 0 THEN OpRaised("ZeroDivisionError")
    ELSE [exc |-> "none", float |-> TRUE,
          combo |-> [value |-> [num |-> 1, den |-> Power(c.value, 0 - combo2.value)],
                     cost |-> IF c.cost + combo2.cost = 0 THEN InfCost
                              ELSE c.cost + combo2.cost,
                     expr_full |-> Infix(Paren(c.expr_full), "^", Paren(combo2.expr_full)),
                     expr_simple |-> Infix(Str(c.value), "^", Str(combo2.value))],
          exact |-> <<>>]

\* Combo.binary_operation (model.py) for every pair of operands
Combo_binary_operation(c, combo2, op) ==
    CASE op \notin BinaryOps -> OpRaised("ValueError")
      [] op = "/" /\ combo2.value = 0 -> OpRaised("ZeroDivisionError")
      [] op = "^" /\ c.value >= 0 /\ combo2.value < 0 -> Combo_power_float(c, combo2)
      [] op = "^" /\ c.value >= 0 /\ combo2.value \in 0..ExponentLimit ->
           OpReturned(binary_operation(c, combo2, op),
                      BigText(BigPower(c.value, combo2.value)))
      [] OTHER -> OpReturned(binary_operation(c, combo2, op),
                             Str(binary_operation(c, combo2, op).value))

----------------------------------------------------------------------------
(* Model.  A model value is [digit, max_value, max_cost, state].           *)

EmptyState == [k \in {} |-> ZeroCombo]

\* no record offered yet
EmptyOffers == [v \in {} |-> 0]

\* self.state[key] = combo
Put(st, key, combo) ==
    [k \in (DOMAIN st) \cup {key} |-> IF k = key THEN combo ELSE st[k]]

\* list(self.state.values())
get_valid_combos(m) == {m.state[k] : k \in DOMAIN m.state}

\* Model.__init__ for a digit in 1..9
NewModel(d) == [digit |-> d, max_value |-> 0, max_cost |-> 0, state |-> EmptyState]

\* the loop of seed with num < max_value for its test
RECURSIVE SeedLoop_strict(_, _, _, _, _)
SeedLoop_strict(m, num, expr, cost, d) ==
    IF num < m.max_value /\ cost <= m.max_cost
    THEN SeedLoop_strict([m EXCEPT !.state = Put(m.state, num, Combo(num, cost, expr, expr))],
                         10 * num + d, expr \o Str(d), cost + 1, d)
    ELSE m

\* the while loop of Model.seed
RECURSIVE SeedLoop(_, _, _, _, _)
SeedLoop(m, num, expr, cost, d) ==
    IF num <= m.max_value /\ cost <= m.max_cost
    THEN SeedLoop([m EXCEPT !.state = Put(m.state, num, Combo(num, cost, expr, expr))],
                  10 * num + d, expr \o Str(d), cost + 1, d)
    ELSE m

\* Model.seed: [raised, model]; raised is the ValueError of an out-of-range
\* ceiling, model is the object as the call leaves it
seed(m, mv, mc) ==
    IF ~(1 <= mv /\ mv <= ValueCeiling) THEN [raised |-> TRUE, model |-> m]
    ELSE LET m1 == [m EXCEPT !.max_value = mv] IN
    IF ~(1 <= mc /\ mc <= CostCeiling) THEN [raised |-> TRUE, model |-> m1]
    ELSE LET m2 == [m1 EXCEPT !.max_cost = mc]
             m3 == [m2 EXCEPT !.state =
                       Put(m2.state, m2.digit,
                           Combo(m2.digit, 1, Str(m2.digit), Str(m2.digit)))]
         IN [raised |-> FALSE,
             model |-> IF MinDigit <= m3.digit /\ m3.digit <= MaxDigit
                       THEN SeedLoop(m3, m3.digit, Str(m3.digit), 1, m3.digit)
                       ELSE m3]

\* Model.copy
copy(m) == [digit |-> m.digit, max_value |-> m.max_value,
            max_cost |-> m.max_cost, state |-> m.state]

\* state_update without the test of the incumbent's cost
state_update_overwrite(m, candidate) ==
    IF candidate.cost > m.max_cost THEN [ret |-> FALSE, model |-> m]
    ELSE IF ~(1 <= candidate.value /\ candidate.value <= m.max_value)
         THEN [ret |-> FALSE, model |-> m]
    ELSE [ret |-> TRUE,
          model |-> [m EXCEPT !.state = Put(m.state, candidate.value, candidate)]]

\* state_update that stores the candidate under its cost
state_update_by_cost(m, candidate) ==
    IF candidate.cost > m.max_cost THEN [ret |-> FALSE, model |-> m]
    ELSE IF ~(1 <= candidate.value /\ candidate.value <= m.max_value)
         THEN [ret |-> FALSE, model |-> m]
    ELSE IF candidate.value \in DOMAIN m.state
            /\ m.state[candidate.value].cost <= candidate.cost
         THEN [ret |-> FALSE, model |-> m]
    ELSE [ret |-> TRUE,
          model |-> [m EXCEPT !.state = Put(m.state, candidate.cost, candidate)]]

\* state_update that lets a candidate of equal cost replace the incumbent
state_update_ties(m, candidate) ==
    IF candidate.cost > m.max_cost THEN [ret |-> FALSE, model |-> m]
    ELSE IF ~(1 <= candidate.value /\ candidate.value <= m.max_value)
         THEN [ret |-> FALSE, model |-> m]
    ELSE IF candidate.value \in DOMAIN m.state
            /\ m.state[candidate.value].cost < candidate.cost
         THEN [ret |-> FALSE, model |-> m]
    ELSE [ret |-> TRUE,
          model |-> [m EXCEPT !.state = Put(m.state, candidate.value, candidate)]]

\* Model.state_update: [ret, model]
state_update(m, candidate) ==
    IF candidate.cost > m.max_cost THEN [ret |-> FALSE, model |-> m]
    ELSE IF ~(1 <= candidate.value /\ candidate.value <= m.max_value)
         THEN [ret |-> FALSE, model |-> m]
    ELSE IF candidate.value \in DOMAIN m.state
            /\ m.state[candidate.value].cost <= candidate.cost
         THEN [ret |-> FALSE, model |-> m]
    ELSE [ret |-> TRUE,
          model |-> [m EXCEPT !.state = Put(m.state, candidate.value, candidate)]]

\* the loop body of state_merge that lets a record of equal cost replace the
\* incumbent
MergeOne_ties(m, combo2) ==
    IF combo2.cost <= m.max_cost
       /\ combo2.value >= 1
       /\ combo2.value <= m.max_value
       /\ (combo2.value \notin DOMAIN m.state
           \/ combo2.cost <= m.state[combo2.value].cost)
    THEN [m EXCEPT !.state = Put(m.state, combo2.value, combo2)]
    ELSE m

\* the body of the loop of Model.state_merge
MergeOne(m, combo2) ==
    IF combo2.cost <= m.max_cost
       /\ combo2.value >= 1
       /\ combo2.value <= m.max_value
       /\ (combo2.value \notin DOMAIN m.state
           \/ combo2.cost < m.state[combo2.value].cost)
    THEN [m EXCEPT !.state = Put(m.state, combo2.value, combo2)]
    ELSE m

RECURSIVE MergeLoop(_, _)
MergeLoop(m, combos) ==
    IF combos = {} THEN m
    ELSE LET combo2 == CHOOSE c \in combos : \A d \in combos : c.value <= d.value
         IN MergeLoop(MergeOne(m, combo2), combos \ {combo2})

\* Model.state_merge
state_merge(m, extra) == MergeLoop(m, get_valid_combos(extra))

\* known.sort(key=lambda c: c.value)
RECURSIVE SortByValue(_)
SortByValue(combos) ==
    IF combos = {} THEN <<>>
    ELSE LET c == CHOOSE x \in combos : \A y \in combos : x.value <= y.value
         IN <<c>> \o SortByValue(combos \ {c})

\* the skip rule with a strict comparison
SkipRule_strict(combo1, combo2) == combo1.value > combo2.value

\* the skip rule with the comparison turned around
SkipRule_reversed(combo1, combo2) == combo1.value <= combo2.value

\* "We only run cases where combo1 >= combo2"
SkipRule(combo1, combo2) == combo1.value >= combo2.value

\* the binary operators Model.simulate applies to the ordered pair (combo1, combo2)
PairOps(combo1, combo2) ==
    (IF SkipRule(combo1, combo2) THEN <<"+", "-", "*", "/">> ELSE <<>>) \o <<"^">>

\* the operator applications of one combo1 of Model.simulate, in order
RECURSIVE PairApplications(_, _, _)
PairApplications(combo1, kn, j) ==
    IF j > Len(kn) THEN <<>>
    ELSE [i \in 1..Len(PairOps(combo1, kn[j])) |->
             [op |-> PairOps(combo1, kn[j])[i], a |-> combo1, b |-> kn[j], unary |-> FALSE]]
         \o PairApplications(combo1, kn, j + 1)

Applications(combo1, kn) ==
    <<[op |-> "!", a |-> combo1, b |-> combo1, unary |-> TRUE],
      [op |-> "sqrt", a |-> combo1, b |-> combo1, unary |-> TRUE]>>
    \o PairApplications(combo1, kn, 1)

Apply(app) ==
    IF app.unary THEN unary_operation(app.a, app.op)
    ELSE binary_operation(app.a, app.b, app.op)

\* the loop with "updates +=" left out for the binary operators
RECURSIVE UpdateLoop_unary_only(_, _, _)
UpdateLoop_unary_only(acc, apps, i) ==
    IF i > Len(apps) THEN acc
    ELSE LET r == state_update(acc.model, Apply(apps[i]))
         IN IF r.ret
            THEN UpdateLoop_unary_only(
                     [model |-> r.model,
                      updates |-> acc.updates + (IF apps[i].unary THEN 1 ELSE 0)],
                     apps, i + 1)
            ELSE UpdateLoop_unary_only(acc, apps, i + 1)

\* updates += new_combos.state_update(...) over the applications of one combo1
RECURSIVE UpdateLoop(_, _, _)
UpdateLoop(acc, apps, i) ==
    IF i > Len(apps) THEN acc
    ELSE LET r == state_update(acc.model, Apply(apps[i]))
         IN IF r.ret
            THEN UpdateLoop([model |-> r.model, updates |-> acc.updates + 1], apps, i + 1)
            ELSE UpdateLoop(acc, apps, i + 1)

\* the round taking the operands combo2 from the working copy as it stands,
\* not from the snapshot
RECURSIVE RoundLoop_live(_, _, _)
RoundLoop_live(acc, kn, i) ==
    IF i > Len(kn) THEN acc
    ELSE LET next == UpdateLoop(acc, Applications(kn[i],
                                    SortByValue(get_valid_combos(acc.model))), 1)
         IN CASE next.updates >= acc.updates -> RoundLoop_live(next, kn, i + 1)

\* for combo1 in known
RECURSIVE RoundLoop(_, _, _)
RoundLoop(acc, kn, i) ==
    IF i > Len(kn) THEN acc
    ELSE LET next == UpdateLoop(acc, Applications(kn[i], kn), 1)
         IN CASE next.updates >= acc.updates -> RoundLoop(next, kn, i + 1)

\* the binary applications of a whole round, as <<c1.value, c2.value, op>>
Evaluated(kn) ==
    UNION {{<<app.a.value, app.b.value, app.op>> :
               app \in {Applications(kn[i], kn)[n] :
                           n \in 3..Len(Applications(kn[i], kn))}} :
           i \in 1..Len(kn)}

\* Model.simulate: [model, updates, known, new_combos]
simulate(m) ==
    LET kn == SortByValue(get_valid_combos(m))
        new_combos == copy(m)
        acc == RoundLoop([model |-> new_combos, updates |-> 0], kn, 1)
    IN [model |-> state_merge(m, acc.model), updates |-> acc.updates, known |-> kn,
        new_combos |-> acc.model]

\* the exception the first of the applications apps[i..] that raises, raises
RECURSIVE FirstExc(_, _)
FirstExc(apps, i) ==
    IF i > Len(apps) THEN "none"
    ELSE IF apps[i].unary THEN FirstExc(apps, i + 1)
    ELSE IF Combo_binary_operation(apps[i].a, apps[i].b, apps[i].op).exc # "none"
         THEN Combo_binary_operation(apps[i].a, apps[i].b, apps[i].op).exc
    ELSE FirstExc(apps, i + 1)

RECURSIVE RoundExc(_, _)
RoundExc(kn, i) ==
    IF i > Len(kn) THEN "none"
    ELSE IF FirstExc(Applications(kn[i], kn), 1) # "none"
         THEN FirstExc(Applications(kn[i], kn), 1)
    ELSE RoundExc(kn, i + 1)

\* the exception Model.simulate raises, "none" when it returns: an operator
\* that raises ends the call before self.state_merge(new_combos), so the
\* model is as it was
simulate_exc(m) == RoundExc(SortByValue(get_valid_combos(m)), 1)

Self == [digit |-> digit, max_value |-> max_value, max_cost |-> max_cost, state |-> state]

----------------------------------------------------------------------------
(* Serialization.  A Python value met in a dictionary is [t, i, s]: its     *)
(* type, and its value when it is an int (i) or a str (s).  A dictionary    *)
(* is a record of its entries together with the set "keys" of the keys it   *)
(* has; the entry of an absent key is never read.                           *)

PyInt(n) == [t |-> "int", i |-> n, s |-> <<>>]
PyStr(x) == [t |-> "str", i |-> 0, s |-> x]

ComboKeys == {"value", "cost", "expr_full", "expr_simple"}
ModelKeys == {"digit", "max_value", "max_cost", "combinations"}

\* Combo.asdict with expr_full and expr_simple exchanged
Combo_asdict_swapped(c) ==
    [keys |-> ComboKeys,
     value |-> PyInt(c.value),
     cost |-> PyInt(c.cost),
     expr_full |-> PyStr(c.expr_simple),
     expr_simple |-> PyStr(c.expr_full)]

\* Combo.asdict: dataclasses.asdict(self)
Combo_asdict(c) ==
    [keys |-> ComboKeys,
     value |-> PyInt(c.value),
     cost |-> PyInt(c.cost),
     expr_full |-> PyStr(c.expr_full),
     expr_simple |-> PyStr(c.expr_simple)]

\* Combo.fromdict: [exc, combo]
Combo_fromdict(input) ==
    IF \/ "value" \notin input.keys \/ input.value.t # "int"
       \/ "cost" \notin input.keys \/ input.cost.t # "int"
       \/ "expr_full" \notin input.keys \/ input.expr_full.t # "str"
       \/ "expr_simple" \notin input.keys \/ input.expr_simple.t # "str"
    THEN [exc |-> "ValueError", combo |-> ZeroCombo]
    ELSE [exc |-> "none",
          combo |-> Combo(input.value.i, input.cost.i,
                          input.expr_full.s, input.expr_simple.s)]

\* for num in sorted(self.state.keys()): state.append(self.state[num].asdict())
RECURSIVE SortedRecords(_, _)
SortedRecords(st, todo) ==
    IF todo = {} THEN <<>>
    ELSE LET num == CHOOSE k \in todo : \A j \in todo : k <= j
         IN <<Combo_asdict(st[num])>> \o SortedRecords(st, todo \ {num})

\* Model.asdict; "iterable" says that the combinations entry is a list
Model_asdict(m) ==
    [keys |-> ModelKeys,
     digit |-> PyInt(m.digit),
     max_cost |-> PyInt(m.max_cost),
     max_value |-> PyInt(m.max_value),
     iterable |-> TRUE,
     combinations |-> SortedRecords(m.state, DOMAIN m.state)]

\* for cdict in input["combinations"]: state[combo.value] = Combo.fromdict(cdict)
RECURSIVE FromdictLoop(_, _, _)
FromdictLoop(st, cdicts, n) ==
    IF n > Len(cdicts) THEN [exc |-> "none", state |-> st]
    ELSE LET r == Combo_fromdict(cdicts[n])
         IN IF r.exc # "none" THEN [exc |-> r.exc, state |-> st]
            ELSE FromdictLoop(Put(st, r.combo.value, r.combo), cdicts, n + 1)

\* Model.fromdict: [exc, digit, max_value, max_cost, state]; max_value and
\* max_cost are stored as they come, of whatever type
Model_fromdict(input) ==
    LET failed(e) == [exc |-> e, digit |-> 0, max_value |-> PyInt(0),
                      max_cost |-> PyInt(0), state |-> EmptyState]
    IN
    IF ~(ModelKeys \subseteq input.keys) THEN failed("ValueError")
    ELSE IF input.digit.t # "int" \/ input.digit.i \notin Digits THEN failed("ValueError")
    ELSE IF ~input.iterable THEN failed("TypeError")
    ELSE LET r == FromdictLoop(EmptyState, input.combinations, 1)
         IN IF r.exc # "none" THEN failed(r.exc)
            ELSE [exc |-> "none", digit |-> input.digit.i,
                  max_value |-> input.max_value, max_cost |-> input.max_cost,
                  state |-> r.state]

\* {}
EmptyDict ==
    [keys |-> {}, digit |-> PyInt(0), max_cost |-> PyInt(0), max_value |-> PyInt(0),
     iterable |-> TRUE, combinations |-> <<>>]

\* input_json: "" (kind "empty"), a text that is not JSON (kind "invalid"),
\* or the JSON text of the dictionary doc (kind "json")
NoInput == [kind |-> "empty", doc |-> EmptyDict]
BadJson == [kind |-> "invalid", doc |-> EmptyDict]
JsonOf(doc) == [kind |-> "json", doc |-> doc]

Request(d, mv, mc, ms, input_json) ==
    [digit |-> d, max_value |-> mv, max_cost |-> mc, max_steps |-> ms,
     input_json |-> input_json]

----------------------------------------------------------------------------
(* advance(mymodel, max_steps) on a freshly seeded model *)

InitAdvance ==
    /\ digit \in Digits
    /\ max_value \in 1..MaxValue
    /\ max_cost \in 1..MaxCost
    /\ max_steps \in 1..MaxSteps
    /\ state = seed(NewModel(digit), max_value, max_cost).model.state
    /\ pc = "loop"
    /\ returns = <<>>
    /\ known = <<>>
    /\ evaluated = {}
    /\ result = "none"
    /\ accepted = FALSE
    /\ offered = EmptyOffers
    /\ calls = 0
    /\ later = 0
    /\ request = Request(digit, max_value, max_cost, max_steps, NoInput)
    /\ raised = "none"

\* the iteration without the break
AdvanceIterate_no_break ==
    /\ pc = "loop"
    /\ Len(returns) < max_steps
    /\ LET r == simulate(Self) IN
        /\ state' = r.model.state
        /\ returns' = Append(returns, r.updates)
        /\ known' = r.known
        /\ evaluated' = Evaluated(r.known)
    /\ pc' = "loop"
    /\ UNCHANGED <<digit, max_value, max_cost, max_steps, result, accepted, offered, calls, later, request, raised>>

\* one iteration of the for loop: updates = mymodel.simulate(), break on 0
AdvanceIterate ==
    /\ pc = "loop"
    /\ Len(returns) < max_steps
    /\ LET r == simulate(Self) IN
        /\ state' = r.model.state
        /\ returns' = Append(returns, r.updates)
        /\ known' = r.known
        /\ evaluated' = Evaluated(r.known)
        /\ pc' = IF r.updates = 0 THEN "return" ELSE "loop"
    /\ UNCHANGED <<digit, max_value, max_cost, max_steps, result, accepted, offered, calls, later, request, raised>>

\* range(1, max_steps + 1) is exhausted
AdvanceExhausted ==
    /\ pc = "loop"
    /\ Len(returns) >= max_steps
    /\ pc' = "return"
    /\ UNCHANGED <<digit, max_value, max_cost, state, max_steps, returns, known, evaluated,
                   result, accepted, offered, calls, later, request, raised>>

\* return mymodel
AdvanceReturn ==
    /\ pc = "return"
    /\ pc' = "done"
    /\ result' = "mymodel"
    /\ UNCHANGED <<digit, max_value, max_cost, state, max_steps, returns, known, evaluated,
                   accepted, offered, calls, later, request, raised>>

\* the caller calls mymodel.simulate() again on the model advance() returned
SimulateAgain ==
    /\ pc = "done"
    /\ later < MaxLater
    /\ LET r == simulate(Self) IN
        /\ state' = r.model.state
        /\ returns' = Append(returns, r.updates)
        /\ known' = r.known
        /\ evaluated' = Evaluated(r.known)
    /\ later' = later + 1
    /\ UNCHANGED <<digit, max_value, max_cost, pc, max_steps, result, accepted, offered, calls, request, raised>>

NextAdvance == AdvanceIterate \/ AdvanceExhausted \/ AdvanceReturn \/ SimulateAgain

SpecAdvance == InitAdvance /\ [][NextAdvance]_vars

----------------------------------------------------------------------------
(* Calls on a seeded model: state_update, state_merge and simulate in any  *)
(* order.                                                                  *)

\* the history after the records of combos were offered to the model
Offer(off, combos) ==
    LET vals == {c.value : c \in combos}
        least(v) == CHOOSE k \in {c.cost : c \in {x \in combos : x.value = v}} :
                        \A c \in {x \in combos : x.value = v} : k <= c.cost
    IN [v \in (DOMAIN off) \cup vals |->
           IF v \notin vals THEN off[v]
           ELSE IF v \in DOMAIN off /\ off[v] <= least(v) THEN off[v]
           ELSE least(v)]

\* the records a caller builds directly, around the ceilings of the model:
\* Combo(value=v) and Combo(value=v, cost=k)
PlainCandidates(mv, mc) ==
    {Combo(v, k, <<>>, <<>>) : v \in 0..(mv + 1), k \in 0..(mc + 1)}

\* the other models a caller merges in: of the same digit and of digit 1,
\* seeded with larger ceilings, as seeded and after one round
Extras(d) ==
    LET seeded == {seed(NewModel(d2), ApiMaxValue + 1, ApiMaxCost + 1).model : d2 \in {d, MinDigit}}
    IN seeded \cup {simulate(m).model : m \in seeded}

Init ==
    /\ digit \in Digits
    /\ max_value \in 1..ApiMaxValue
    /\ max_cost \in 1..ApiMaxCost
    /\ state = seed(NewModel(digit), max_value, max_cost).model.state
    /\ pc = "seed"
    /\ max_steps = 0
    /\ returns = <<>>
    /\ known = <<>>
    /\ evaluated = {}
    /\ result = "none"
    /\ accepted = FALSE
    /\ offered = EmptyOffers
    /\ calls = 0
    /\ later = 0
    /\ request = Request(digit, max_value, max_cost, max_steps, NoInput)
    /\ raised = "none"

\* mymodel.state_update(candidate)
CallStateUpdate ==
    /\ calls < MaxCalls
    /\ \E candidate \in PlainCandidates(max_value, max_cost) :
        LET r == state_update(Self, candidate) IN
        /\ state' = r.model.state
        /\ accepted' = r.ret
        /\ offered' = Offer(offered, {candidate})
    /\ pc' = "state_update"
    /\ calls' = calls + 1
    /\ UNCHANGED <<digit, max_value, max_cost, max_steps, returns, known, evaluated, result, later, request, raised>>

\* mymodel.state_merge(extra)
CallStateMerge ==
    /\ calls < MaxCalls
    /\ \E extra \in Extras(digit) :
        /\ state' = state_merge(Self, extra).state
        /\ offered' = Offer(offered, get_valid_combos(extra))
    /\ pc' = "state_merge"
    /\ calls' = calls + 1
    /\ UNCHANGED <<digit, max_value, max_cost, max_steps, returns, known, evaluated,
                   result, accepted, later, request, raised>>

\* mymodel.simulate()
CallSimulate ==
    /\ calls < MaxCalls
    /\ LET r == simulate(Self) IN
        /\ state' = r.model.state
        /\ returns' = Append(returns, r.updates)
        /\ known' = r.known
        /\ evaluated' = Evaluated(r.known)
        /\ offered' = Offer(offered, get_valid_combos(r.new_combos))
    /\ pc' = "simulate"
    /\ calls' = calls + 1
    /\ UNCHANGED <<digit, max_value, max_cost, max_steps, result, accepted, later, request, raised>>

Next == CallStateUpdate \/ CallStateMerge \/ CallSimulate

Spec == Init /\ [][Next]_vars

----------------------------------------------------------------------------
(* get_model, calculate and _main, called with any configuration and any   *)
(* resume text.                                                            *)

ResumeMaxValue == 3     \* largest in-range max_value tried under SpecResume
ResumeMaxCost == 2      \* largest in-range max_cost tried under SpecResume
ResumeMaxSteps == 1     \* largest max_steps tried under SpecResume
ResumeMaxRounds == 2    \* simulate() calls tried on the model get_model returned

\* no model: the call raised or returned None
NoModel == [digit |-> 0, max_value |-> 0, max_cost |-> 0, state |-> EmptyState]

\* raise e
Raise(e) == [exc |-> e, ret |-> "raised", model |-> NoModel]

\* get_model once mymodel.seed(...) has returned or raised s
SeedReturned(s) ==
    IF s.raised THEN Raise("ValueError")
    ELSE [exc |-> "none", ret |-> "Model", model |-> s.model]

\* get_model: [exc, ret, model]; ret is "Model" or "None"
get_model(d, mv, mc, input_json) ==
    LET raise(e) == Raise(e)
        seeded(mymodel) == SeedReturned(seed(mymodel, mv, mc))
    IN
    IF d \notin Digits THEN raise("ValueError")
    ELSE IF input_json.kind = "empty" THEN seeded(NewModel(d))
    ELSE IF input_json.kind = "invalid" THEN raise("JSONDecodeError")
    ELSE LET input_dict == input_json.doc IN
    IF input_dict.keys = {} THEN raise("UnboundLocalError")
    ELSE LET mymodel2 == Model_fromdict(input_dict) IN
    IF mymodel2.exc = "ValueError" THEN raise("UnboundLocalError")
    ELSE IF mymodel2.exc # "none" THEN raise(mymodel2.exc)
    ELSE IF mymodel2.digit = d
         THEN seeded([NewModel(d) EXCEPT !.state = mymodel2.state])
         ELSE seeded(NewModel(d))

RECURSIVE advance(_, _)

\* updates = mymodel.simulate(), then break or go on; r is what simulate did
AdvanceStep(r, steps) ==
    IF r.updates = 0 THEN [exc |-> "none", model |-> r.model]
    ELSE advance(r.model, steps - 1)

\* advance: [exc, model], the exception a simulate() call raised or the
\* model after the loop
advance(mymodel, steps) ==
    IF steps <= 0 THEN [exc |-> "none", model |-> mymodel]
    ELSE IF simulate_exc(mymodel) # "none"
         THEN [exc |-> simulate_exc(mymodel), model |-> mymodel]
    ELSE AdvanceStep(simulate(mymodel), steps)

\* calculate once advance has returned or raised a
CalculateAdvanced(a) ==
    IF a.exc # "none" THEN Raise(a.exc)
    ELSE [exc |-> "none", ret |-> "Model", model |-> a.model]

\* calculate once get_model has returned or raised g
CalculateFrom(g, ms) ==
    IF g.exc # "none" THEN Raise(g.exc)
    ELSE CalculateAdvanced(advance(g.model, ms))

\* calculate: [exc, ret, model]; ret is "Model" or "None"
calculate(d, mv, mc, ms, input_json) ==
    CalculateFrom(get_model(d, mv, mc, input_json), ms)

\* _main once calculate has returned or raised c
MainFrom(c, written) ==
    [exc |-> c.exc,
     ret |-> IF c.exc # "none" THEN "raised"
             ELSE IF written THEN "True" ELSE "False",
     model |-> c.model]

\* _main: [exc, ret, model]; ret is "True" or "False"; input_text is the text
\* read from the input file, written says whether the output file could be
\* written
_main(d, mv, mc, ms, input_text, written) ==
    MainFrom(calculate(d, mv, mc, ms, input_text), written)

\* a value of the other type: an int given as a str and the other way round
Mistype(v) == IF v.t = "int" THEN PyStr(Str(v.i)) ELSE PyInt(0)

\* the dictionaries read from a resume text: the export of the model m, and
\* that export with one key removed or one entry mistyped, in the dictionary
\* itself or in its first record
ResumeDocs(m) ==
    LET good == Model_asdict(m)
    IN {good}
       \cup {[good EXCEPT !.keys = @ \ {k}] : k \in ModelKeys}
       \cup {[good EXCEPT !.digit = Mistype(@)],
             [good EXCEPT !.max_value = Mistype(@)],
             [good EXCEPT !.max_cost = Mistype(@)],
             [good EXCEPT !.iterable = FALSE]}
       \cup {[good EXCEPT !.combinations[1].keys = @ \ {k}] : k \in ComboKeys}
       \cup {[good EXCEPT !.combinations[1].value = Mistype(@)],
             [good EXCEPT !.combinations[1].cost = Mistype(@)],
             [good EXCEPT !.combinations[1].expr_full = Mistype(@)],
             [good EXCEPT !.combinations[1].expr_simple = Mistype(@)]}
       \cup {[good EXCEPT !.combinations[1].value = PyInt(0)]}

\* the models whose export is read back: of the requested digit and of
\* another one, one round after the seed
ResumeSources(d) ==
    {simulate(seed(NewModel(d2), ResumeMaxValue, ResumeMaxCost).model).model :
        d2 \in {IF d \in Digits THEN d ELSE MinDigit, (d % MaxDigit) + 1}}

ResumeInputs(d) ==
    {NoInput, BadJson, JsonOf(EmptyDict)}
    \cup {JsonOf(doc) : doc \in UNION {ResumeDocs(m) : m \in ResumeSources(d)}}

InitResume ==
    /\ \E d \in (MinDigit - 1)..(MaxDigit + 1) :
       \E mv \in (0..ResumeMaxValue) \cup {ValueCeiling + 1} :
       \E mc \in (0..ResumeMaxCost) \cup {CostCeiling + 1} :
       \E ms \in 1..ResumeMaxSteps :
       \E input_json \in ResumeInputs(d) :
           request = Request(d, mv, mc, ms, input_json)
    /\ digit = 0
    /\ max_value = 0
    /\ max_cost = 0
    /\ state = EmptyState
    /\ pc = "call"
    /\ max_steps = 0
    /\ returns = <<>>
    /\ known = <<>>
    /\ evaluated = {}
    /\ result = "none"
    /\ accepted = FALSE
    /\ offered = EmptyOffers
    /\ calls = 0
    /\ later = 0
    /\ raised = "none"

\* the caller receives what the call returned, or the exception
Returned(r) ==
    /\ digit' = r.model.digit
    /\ max_value' = r.model.max_value
    /\ max_cost' = r.model.max_cost
    /\ state' = r.model.state
    /\ raised' = r.exc
    /\ result' = r.ret
    /\ UNCHANGED <<max_steps, returns, known, evaluated, accepted, offered, calls,
                   later, request>>

\* get_model(digit, max_value=, max_cost=, input_json=)
CallGetModel ==
    /\ pc = "call"
    /\ pc' = "get_model"
    /\ Returned(get_model(request.digit, request.max_value, request.max_cost,
                          request.input_json))

\* calculate(digit, max_value=, max_cost=, max_steps=, input_json=)
CallCalculate ==
    /\ pc = "call"
    /\ pc' = "calculate"
    /\ Returned(calculate(request.digit, request.max_value, request.max_cost,
                          request.max_steps, request.input_json))

\* _main(digit, max_value, max_cost, max_steps, full, input_filename, output_filename)
CallMain ==
    /\ pc = "call"
    /\ pc' = "_main"
    /\ \E written \in BOOLEAN :
        Returned(_main(request.digit, request.max_value, request.max_cost,
                       request.max_steps, request.input_json, written))

\* mymodel.simulate() on the model get_model returned
CallSimulateResumed ==
    /\ pc \in {"get_model", "simulate"}
    /\ result = "Model"
    /\ raised = "none"
    /\ later < ResumeMaxRounds
    /\ pc' = "simulate"
    /\ later' = later + 1
    /\ IF simulate_exc(Self) # "none"
       THEN /\ raised' = simulate_exc(Self)
            /\ UNCHANGED <<state, returns, known, evaluated>>
       ELSE /\ raised' = "none"
            /\ state' = simulate(Self).model.state
            /\ returns' = Append(returns, simulate(Self).updates)
            /\ known' = simulate(Self).known
            /\ evaluated' = Evaluated(simulate(Self).known)
    /\ UNCHANGED <<digit, max_value, max_cost, max_steps, result, accepted, offered,
                   calls, request>>

NextResume == CallGetModel \/ CallCalculate \/ CallMain \/ CallSimulateResumed

SpecResume == InitResume /\ [][NextResume]_vars

----------------------------------------------------------------------------
(* Model(digit), then seed() called once or twice with any ceilings.       *)

SeedMaxDigits == 3      \* longest run of the digit the ceilings tried allow for
SeedMaxCost == 4        \* largest in-range max_cost tried under SpecSeed, but CostCeiling

\* 10 ** k
RECURSIVE Pow10(_)
Pow10(k) == IF k = 0 THEN 1 ELSE 10 * Pow10(k - 1)

\* the max_value arguments tried: around every power of ten, and both sides
\* of the two ends of [1, 1000000]
SeedValues ==
    UNION {{Pow10(k) - 1, Pow10(k), Pow10(k) + 1} : k \in 0..SeedMaxDigits}
    \cup {ValueCeiling, ValueCeiling + 1}

\* the max_cost arguments tried
SeedCosts == (0..SeedMaxCost) \cup {CostCeiling, CostCeiling + 1}

InitSeed ==
    /\ digit \in Digits
    /\ max_value = NewModel(digit).max_value
    /\ max_cost = NewModel(digit).max_cost
    /\ state = NewModel(digit).state
    /\ pc = "new"
    /\ max_steps = 0
    /\ returns = <<>>
    /\ known = <<>>
    /\ evaluated = {}
    /\ result = "none"
    /\ accepted = FALSE
    /\ offered = EmptyOffers
    /\ calls = 0
    /\ later = 0
    /\ request = Request(digit, 0, 0, 0, NoInput)
    /\ raised = "none"

\* the model and the caller once seed() has returned or raised s
SeedApplied(s, mv, mc) ==
    /\ max_value' = s.model.max_value
    /\ max_cost' = s.model.max_cost
    /\ state' = s.model.state
    /\ raised' = IF s.raised THEN "ValueError" ELSE "none"
    /\ request' = Request(digit, mv, mc, 0, NoInput)
    /\ calls' = calls + 1
    /\ UNCHANGED <<digit, max_steps, returns, known, evaluated, result, accepted,
                   offered, later>>

\* mymodel = Model(digit); mymodel.seed(max_value=mv, max_cost=mc)
SeedFresh ==
    /\ pc = "new"
    /\ pc' = "seed"
    /\ \E mv \in SeedValues : \E mc \in SeedCosts :
          SeedApplied(seed(Self, mv, mc), mv, mc)

\* mymodel.seed(max_value=mv, max_cost=mc) again, whatever the first call did
SeedAgain ==
    /\ pc = "seed"
    /\ pc' = "reseed"
    /\ \E mv \in SeedValues : \E mc \in SeedCosts :
          SeedApplied(seed(Self, mv, mc), mv, mc)

NextSeed == SeedFresh \/ SeedAgain

SpecSeed == InitSeed /\ [][NextSeed]_vars

----------------------------------------------------------------------------
(* The operators applied to any two records: operations.unary_operation,   *)
(* operations.binary_operation and Combo.binary_operation.                 *)

OpsMaxValue == 7    \* operand values range over -OpsMaxValue..OpsMaxValue
OpsMaxCost == 2     \* operand costs range over 1..OpsMaxCost

\* the operand values: around 0, and around the two limits
OperandValues ==
    ((0 - OpsMaxValue)..OpsMaxValue)
    \cup {FactorialLimit, FactorialLimit + 1, ExponentLimit, ExponentLimit + 1}

\* Combo(value=v, cost=k)
Operands == {Combo(v, k, <<>>, <<>>) : v \in OperandValues, k \in 1..OpsMaxCost}

\* the operands of the unary operators: every value up to the limit of "!"
UnaryOperands ==
    Operands \cup {Combo(v, k, <<>>, <<>>) : v \in 0..(FactorialLimit + 1), k \in 1..OpsMaxCost}

\* the calls: an operator of the program, or "%" which is none
OpsRequests ==
    {[combo1 |-> a, combo2 |-> b, op |-> o] :
        a \in Operands, b \in Operands, o \in BinaryOps}
    \cup {[combo1 |-> a, combo2 |-> a, op |-> o] :
            a \in UnaryOperands, o \in UnaryOps \cup {"%"}}

InitOps ==
    /\ digit = MinDigit
    /\ max_value = 0
    /\ max_cost = 0
    /\ state = EmptyState
    /\ pc = "args"
    /\ max_steps = 0
    /\ returns = <<>>
    /\ known = <<>>
    /\ evaluated = {}
    /\ result = OpRaised("none")
    /\ accepted = FALSE
    /\ offered = EmptyOffers
    /\ calls = 0
    /\ later = 0
    /\ request \in OpsRequests
    /\ raised = "none"

OpsReturned(r, fn) ==
    /\ result' = r
    /\ raised' = r.exc
    /\ pc' = fn
    /\ calls' = calls + 1
    /\ UNCHANGED <<digit, max_value, max_cost, state, max_steps, returns, known,
                   evaluated, accepted, offered, later, request>>

\* unary_operation(combo1, op)
CallOpsUnary ==
    /\ pc = "args"
    /\ request.op \notin BinaryOps
    /\ OpsReturned(ops_unary_operation(request.combo1, request.op),
                   "operations.unary_operation")

\* binary_operation(combo1, combo2, op)
CallOpsBinary ==
    /\ pc = "args"
    /\ request.op \notin UnaryOps
    /\ OpsReturned(ops_binary_operation(request.combo1, request.combo2, request.op),
                   "operations.binary_operation")

\* combo1.binary_operation(combo2, op)
CallComboBinary ==
    /\ pc = "args"
    /\ request.op \notin UnaryOps
    /\ OpsReturned(Combo_binary_operation(request.combo1, request.combo2, request.op),
                   "Combo.binary_operation")

NextOps == CallOpsUnary \/ CallOpsBinary \/ CallComboBinary

SpecOps == InitOps /\ [][NextOps]_vars

----------------------------------------------------------------------------
(* Model.copy() and the calls that follow it on the original and on the    *)
(* copy.  Two model objects can share a dictionary, so here a model object *)
(* is [digit, max_value, max_cost, state] with state a reference into      *)
(* heap, the sequence of the dictionaries allocated so far.                *)

\* no object yet
NoObject == [digit |-> 0, max_value |-> 0, max_cost |-> 0, state |-> 0]

\* the model value of the object obj
Deref(heap, obj) ==
    [digit |-> obj.digit, max_value |-> obj.max_value, max_cost |-> obj.max_cost,
     state |-> heap[obj.state]]

\* copy() with new_model.state = self.state
Model_copy_shared(heap, obj) ==
    [heap |-> heap,
     obj |-> [digit |-> obj.digit, max_value |-> obj.max_value,
              max_cost |-> obj.max_cost, state |-> obj.state]]

\* Model.copy: new_model.state = self.state.copy() allocates a dictionary
\* with the entries of self.state
Model_copy(heap, obj) ==
    [heap |-> Append(heap, heap[obj.state]),
     obj |-> [digit |-> obj.digit, max_value |-> obj.max_value,
              max_cost |-> obj.max_cost, state |-> Len(heap) + 1]]

\* the models copy() is called on: as seeded, and after one round
CopySources(d, mv, mc) ==
    {seed(NewModel(d), mv, mc).model, simulate(seed(NewModel(d), mv, mc).model).model}

InitCopy ==
    /\ digit \in Digits
    /\ max_value \in 1..ApiMaxValue
    /\ max_cost \in 1..ApiMaxCost
    /\ state \in {m.state : m \in CopySources(digit, max_value, max_cost)}
    /\ result = [heap |-> <<state>>,
                 self |-> [digit |-> digit, max_value |-> max_value,
                           max_cost |-> max_cost, state |-> 1],
                 other |-> NoObject]
    /\ pc = "seeded"
    /\ max_steps = 0
    /\ returns = <<>>
    /\ known = <<>>
    /\ evaluated = {}
    /\ accepted = FALSE
    /\ offered = EmptyOffers
    /\ calls = 0
    /\ later = 0
    /\ request = Request(digit, max_value, max_cost, max_steps, NoInput)
    /\ raised = "none"

\* the heap once the dictionary of obj holds the entries of model m
Stored(heap, obj, m) == [heap EXCEPT ![obj.state] = m.state]

\* the step leaves heap h; state is the dictionary of the original
CopyFrame(h) ==
    /\ result' = [result EXCEPT !.heap = h]
    /\ state' = h[result.self.state]
    /\ calls' = calls + 1
    /\ UNCHANGED <<digit, max_value, max_cost, max_steps, returns, known, evaluated,
                   offered, later, request, raised>>

\* other = self.copy()
CallCopy ==
    /\ pc = "seeded"
    /\ pc' = "copy"
    /\ result' = [heap |-> Model_copy(result.heap, result.self).heap,
                  self |-> result.self,
                  other |-> Model_copy(result.heap, result.self).obj]
    /\ UNCHANGED <<digit, max_value, max_cost, state, max_steps, returns, known,
                   evaluated, accepted, offered, calls, later, request, raised>>

\* self.state_update(candidate)
UpdateOriginal ==
    /\ pc # "seeded"
    /\ calls < MaxCalls
    /\ pc' = "original"
    /\ \E candidate \in PlainCandidates(max_value, max_cost) :
        /\ accepted' = state_update(Deref(result.heap, result.self), candidate).ret
        /\ CopyFrame(Stored(result.heap, result.self,
                            state_update(Deref(result.heap, result.self), candidate).model))

\* other.state_update(candidate)
UpdateCopy ==
    /\ pc # "seeded"
    /\ calls < MaxCalls
    /\ pc' = "other"
    /\ \E candidate \in PlainCandidates(max_value, max_cost) :
        /\ accepted' = state_update(Deref(result.heap, result.other), candidate).ret
        /\ CopyFrame(Stored(result.heap, result.other,
                            state_update(Deref(result.heap, result.other), candidate).model))

\* self.state_merge(extra)
MergeOriginal ==
    /\ pc # "seeded"
    /\ calls < MaxCalls
    /\ pc' = "original"
    /\ accepted' = accepted
    /\ \E extra \in Extras(digit) :
        CopyFrame(Stored(result.heap, result.self,
                         state_merge(Deref(result.heap, result.self), extra)))

\* other.state_merge(extra)
MergeCopy ==
    /\ pc # "seeded"
    /\ calls < MaxCalls
    /\ pc' = "other"
    /\ accepted' = accepted
    /\ \E extra \in Extras(digit) :
        CopyFrame(Stored(result.heap, result.other,
                         state_merge(Deref(result.heap, result.other), extra)))

NextCopy == CallCopy \/ UpdateOriginal \/ UpdateCopy \/ MergeOriginal \/ MergeCopy

SpecCopy == InitCopy /\ [][NextCopy]_vars

----------------------------------------------------------------------------
(* Properties *)

ArithOps == {"+", "-", "*", "/"}

\* the number of simulate() calls advance() has made
AdvanceCalls == Len(returns) - later

\* C1: every record retained in state has 1 <= value <= max_value and
\* cost <= max_cost.
ValueBound ==
    \A k \in DOMAIN state :
        /\ 1 <= state[k].value
        /\ state[k].value <= max_value
        /\ state[k].cost <= max_cost

\* C2: for every value with a retained record, that record's cost is the
\* least among the records offered for the value so far, and no call
\* replaces an incumbent by a record of higher cost.
Dominance ==
    /\ [](\A v \in DOMAIN state : v \in DOMAIN offered => state[v].cost <= offered[v])
    /\ [][\A v \in DOMAIN state :
              v \in DOMAIN state' /\ state'[v].cost <= state[v].cost]_vars

\* a value taken from a caller's record, after which a state_update was refused
DominanceWitness ==
    /\ calls = 2
    /\ pc = "state_update"
    /\ accepted = FALSE
    /\ \E v \in DOMAIN state :
          /\ v \in DOMAIN offered
          /\ v # digit
          /\ offered[v] = state[v].cost
          /\ state[v].expr_full = Str(v)

\* C3: a simulate() call that follows a simulate() call which returned 0
\* returns 0 too and leaves state unchanged.
FixedPointIdempotent ==
    [][(/\ Len(returns) > 0
        /\ returns[Len(returns)] = 0
        /\ Len(returns') = Len(returns) + 1)
       => (returns'[Len(returns')] = 0 /\ state' = state)]_vars

\* simulate() was called again after it had returned 0
FixedPointWitness ==
    /\ Len(returns) >= 2
    /\ returns[Len(returns) - 1] = 0
    /\ returns[Len(returns)] = 0
    /\ later >= 1
    /\ Cardinality(DOMAIN state) >= 3

\* what is left of a call of advance(): the rounds it may still run and the
\* steps back to its caller
AdvanceMeasure ==
    2 * (max_steps - AdvanceCalls)
    + (CASE pc = "loop" -> 2 [] pc = "return" -> 1 [] pc = "done" -> 0)

\* C4: advance() ends (every step it takes before it has returned lowers
\* AdvanceMeasure, which is never negative); it calls simulate() at most
\* max_steps times, none of them after a call that returned 0, and returns
\* the model it was given.
AdvanceTerminates ==
    /\ [](AdvanceCalls <= max_steps)
    /\ [](pc = "loop" => \A i \in 1..AdvanceCalls : returns[i] # 0)
    /\ [](AdvanceMeasure >= 0)
    /\ [](pc # "done" => later = 0)
    /\ [](pc = "done" => result = "mymodel")
    /\ [][pc # "done" => AdvanceMeasure' < AdvanceMeasure]_vars
    /\ [][pc = "return" => state' = state]_vars

\* advance() stopped on a round without updates, before max_steps rounds
AdvanceWitness ==
    /\ pc = "done"
    /\ later = 0
    /\ Len(returns) >= 2
    /\ Len(returns) < max_steps
    /\ returns[Len(returns)] = 0

\* C5: the cost of every record in state is the number of occurrences of
\* the digit's character in its expr_full.
CostAccounting ==
    \A k \in DOMAIN state : state[k].cost = Count(state[k].expr_full, Str(digit)[1])

\* a record built by nested binary operators is in state
CostAccountingWitness ==
    \E k \in DOMAIN state :
        /\ state[k].cost >= 3
        /\ HasSpace(state[k].expr_full)
        /\ \E i \in 1..Len(state[k].expr_full) : state[k].expr_full[i] = "("

\* C6: digit 3, max_value 10, max_cost 4, max_steps 5: value 3 is there at
\* cost 1 from the seed on, value 0 never is, and when advance() has
\* returned 9, 6 and 1 are there at cost <= 2.
Scenario3 ==
    (digit = 3 /\ max_value = 10 /\ max_cost = 4 /\ max_steps = 5) =>
        /\ 3 \in DOMAIN state /\ state[3].cost = 1
        /\ 0 \notin DOMAIN state
        /\ pc = "done" =>
             \A v \in {9, 6, 1} : v \in DOMAIN state /\ state[v].cost <= 2

\* the run of the scenario has returned
Scenario3Witness ==
    /\ digit = 3 /\ max_value = 10 /\ max_cost = 4 /\ max_steps = 5
    /\ pc = "done"
    /\ later = 0

\* C8: in a round, for records c1, c2 of the snapshot with c1.value <
\* c2.value, (c1, c2) is not evaluated under + - * / and (c2, c1) is; under ^
\* every ordered pair is evaluated.
CommutativeSkip ==
    \A i \in 1..Len(known) : \A j \in 1..Len(known) :
        /\ <<known[i].value, known[j].value, "^">> \in evaluated
        /\ known[i].value < known[j].value =>
             \A op \in ArithOps :
                /\ <<known[i].value, known[j].value, op>> \notin evaluated
                /\ <<known[j].value, known[i].value, op>> \in evaluated

\* a round over a snapshot of several values has run
CommutativeSkipWitness ==
    /\ Len(returns) >= 1
    /\ Len(known) >= 3
    /\ \E i \in 1..Len(known) : \E j \in 1..Len(known) : known[i].value < known[j].value

\* C7: Model.fromdict(model.asdict()) has the digit, max_value and max_cost of
\* the model and the same state: the same keys and, for each key, the same
\* value, cost, expr_full and expr_simple.
RoundTrip ==
    LET r == Model_fromdict(Model_asdict(Self)) IN
    /\ r.exc = "none"
    /\ r.digit = digit
    /\ r.max_value = PyInt(max_value)
    /\ r.max_cost = PyInt(max_cost)
    /\ DOMAIN r.state = DOMAIN state
    /\ \A k \in DOMAIN state :
          /\ r.state[k].value = state[k].value
          /\ r.state[k].cost = state[k].cost
          /\ r.state[k].expr_full = state[k].expr_full
          /\ r.state[k].expr_simple = state[k].expr_simple

\* a model with records of nested expressions was exported and read back
RoundTripWitness ==
    /\ Len(returns) >= 2
    /\ Len(Model_asdict(Self).combinations) >= 3
    /\ Model_fromdict(Model_asdict(Self)).exc = "none"
    /\ \E k \in DOMAIN state : state[k].expr_full # state[k].expr_simple

\* the configuration of the request is within range
ValidConfig ==
    /\ request.digit \in Digits
    /\ 1 <= request.max_value /\ request.max_value <= ValueCeiling
    /\ 1 <= request.max_cost /\ request.max_cost <= CostCeiling

\* a required field of the record cdict is missing or mistyped
BadRecord(cdict) ==
    \/ ~(ComboKeys \subseteq cdict.keys)
    \/ cdict.value.t # "int" \/ cdict.cost.t # "int"
    \/ cdict.expr_full.t # "str" \/ cdict.expr_simple.t # "str"

\* the resume structure's digit differs from the requested digit, or a
\* required field of it is missing or mistyped
MustFallBack ==
    /\ request.input_json.kind = "json"
    /\ LET doc == request.input_json.doc IN
        \/ ~(ModelKeys \subseteq doc.keys)
        \/ doc.digit.t # "int" \/ doc.max_value.t # "int" \/ doc.max_cost.t # "int"
        \/ ~doc.iterable
        \/ doc.digit.i # request.digit
        \/ \E n \in 1..Len(doc.combinations) : BadRecord(doc.combinations[n])

\* C9: get_model, called with a configuration within range and a resume
\* structure whose digit differs from the requested one or that lacks or
\* mistypes a required field, returns without raising a fresh seeded model:
\* its state is the seed entries of the requested digit and ceilings.
ResumeFallback ==
    (pc = "get_model" /\ ValidConfig /\ MustFallBack) =>
        /\ raised = "none"
        /\ result = "Model"
        /\ Self = seed(NewModel(request.digit), request.max_value, request.max_cost).model

\* C10: with a digit outside 1..9, a max_value outside [1, 1000000] or a
\* max_cost outside [1, 30], calculate returns None and _main returns False,
\* and neither raises.
ConfigErrorsReported ==
    ~ValidConfig =>
        /\ pc = "calculate" => (raised = "none" /\ result = "None")
        /\ pc = "_main" => (raised = "none" /\ result = "False")

\* C11: a seed() call that raises leaves max_value, max_cost and state as
\* they were before the call.
SeedNotPartial ==
    [][(pc' \in {"seed", "reseed"} /\ raised' = "ValueError")
       => (max_value' = max_value /\ max_cost' = max_cost /\ state' = state)]_vars

\* the number written with k digits d
Repetition(d, k) == (d * (Pow10(k) - 1)) \div 9

\* the numeral of k digits d
RepetitionText(d, k) == [i \in 1..k |-> DigitChars[d + 1]]

\* C17: after the first seed() of a new model, state holds the digit at cost
\* 1 and, besides it, exactly the numbers written with k digits d, k <=
\* max_cost, that are <= max_value, each at cost k with its numeral for both
\* expressions; for max_value 999 and max_cost 4 that is 3 entries.
SeedEntries ==
    (pc = "seed" /\ raised = "none") =>
        LET reps == {k \in 1..Len(Str(ValueCeiling)) :
                        k <= max_cost /\ Repetition(digit, k) <= max_value}
        IN /\ DOMAIN state = {digit} \cup {Repetition(digit, k) : k \in reps}
           /\ state[digit] = [value |-> digit, cost |-> 1,
                              expr_full |-> RepetitionText(digit, 1),
                              expr_simple |-> RepetitionText(digit, 1)]
           /\ \A k \in reps :
                state[Repetition(digit, k)] =
                    [value |-> Repetition(digit, k), cost |-> k,
                     expr_full |-> RepetitionText(digit, k),
                     expr_simple |-> RepetitionText(digit, k)]
           /\ (max_value = 999 /\ max_cost = 4) => Cardinality(DOMAIN state) = 3

\* a new model was seeded with max_value 999 and max_cost 4
SeedEntriesWitness ==
    /\ pc = "seed"
    /\ raised = "none"
    /\ max_value = 999
    /\ max_cost = 4
    /\ Cardinality(DOMAIN state) = 3
    /\ Repetition(digit, 3) \in DOMAIN state

\* every key of st is the value of the record stored under it
KeyedByValue(st) == \A k \in DOMAIN st : st[k].value = k

\* C18: in every state reached by seed, state_update, state_merge and
\* simulate, and in the copy and the fromdict(asdict()) image of the model,
\* every key of state equals the value field of the record under it.
KeysAreValues ==
    /\ KeyedByValue(state)
    /\ KeyedByValue(copy(Self).state)
    /\ KeyedByValue(Model_fromdict(Model_asdict(Self)).state)
    /\ Model_fromdict(Model_asdict(Self)).exc = "none"
    /\ DOMAIN Model_fromdict(Model_asdict(Self)).state = DOMAIN state

\* a call of state_update, state_merge or simulate left several entries
KeysAreValuesWitness ==
    /\ pc \in {"state_update", "state_merge", "simulate"}
    /\ calls = MaxCalls
    /\ Cardinality(DOMAIN state) > 1
    /\ Cardinality(DOMAIN Model_fromdict(Model_asdict(Self)).state) > 1

\* the condition under which the candidate is to be stored
MustStore(m, candidate) ==
    /\ candidate.cost <= m.max_cost
    /\ 1 <= candidate.value
    /\ candidate.value <= m.max_value
    /\ ~\E k \in DOMAIN m.state :
          k = candidate.value /\ m.state[k].cost <= candidate.cost

\* C19: state_update(candidate) returns true iff it stores the candidate,
\* which happens exactly when its cost is within max_cost, its value is in
\* 1..max_value and no entry for that value has a cost <= the candidate's; no
\* other entry changes, and nothing changes when it returns false.
UpdateContract ==
    \A candidate \in PlainCandidates(max_value, max_cost) :
        LET r == state_update(Self, candidate)
            after == r.model.state
        IN /\ r.ret <=> MustStore(Self, candidate)
           /\ r.ret => (candidate.value \in DOMAIN after
                        /\ after[candidate.value] = candidate)
           /\ DOMAIN after \subseteq (DOMAIN state) \cup {candidate.value}
           /\ \A k \in (DOMAIN state) \ {candidate.value} :
                k \in DOMAIN after /\ after[k] = state[k]
           /\ ~r.ret => after = state
           /\ r.model.max_value = max_value
           /\ r.model.max_cost = max_cost
           /\ r.model.digit = digit

\* state_update has stored a candidate, and in the state it left a candidate
\* ties with an incumbent that is a different record
UpdateContractWitness ==
    /\ pc = "state_update"
    /\ accepted
    /\ \E candidate \in PlainCandidates(max_value, max_cost) :
        /\ candidate.value \in DOMAIN state
        /\ state[candidate.value].cost = candidate.cost
        /\ state[candidate.value] # candidate

\* the models left by self.state_update(c) for every c of combos, over every
\* order of the calls
RECURSIVE UpdateAll(_, _)
UpdateAll(m, combos) ==
    IF combos = {} THEN {m}
    ELSE UNION {UpdateAll(state_update(m, c).model, combos \ {c}) : c \in combos}

\* C20: state_merge(other) leaves self as calling self.state_update on every
\* record of other.state does, whatever the order of the calls.
MergeIsUpdates ==
    \A extra \in Extras(digit) :
        UpdateAll(Self, get_valid_combos(extra)) = {state_merge(Self, extra)}

\* state_merge adopted a record, and a model to merge holds a record that
\* ties with a different incumbent
MergeIsUpdatesWitness ==
    /\ pc = "state_merge"
    /\ Cardinality(DOMAIN state) > 1
    /\ \E extra \in Extras(digit) : \E c \in get_valid_combos(extra) :
        /\ c.value \in DOMAIN state
        /\ state[c.value].cost = c.cost
        /\ state[c.value] # c

\* the operands and the operator of the call
Arg1 == request.combo1
Arg2 == request.combo2

\* C13: binary_operation(a, b, "/") with b.value = 0 raises ZeroDivisionError
\* for every a.value; it returns no record.
DivisionByZeroRaises ==
    (pc = "operations.binary_operation" /\ request.op = "/" /\ Arg2.value = 0)
        => (raised = "ZeroDivisionError" /\ result.exc = "ZeroDivisionError")

\* 0 / 0 and a negative value / 0 have raised
DivisionByZeroWitness ==
    /\ pc = "operations.binary_operation"
    /\ request.op = "/"
    /\ Arg2.value = 0
    /\ Arg1.value <= 0
    /\ raised = "ZeroDivisionError"

\* 2 ** 40
TwoToTheForty == <<"1", "0", "9", "9", "5", "1", "1", "6", "2", "7", "7", "7", "6">>

\* C14: "^" returns a record of value a.value ** b.value and cost a.cost +
\* b.cost exactly when a.value >= 0 and 0 <= b.value <= 40, and the zero
\* sentinel otherwise, in operations.binary_operation and in the
\* Combo.binary_operation method alike.
PowerContract ==
    (pc \in {"operations.binary_operation", "Combo.binary_operation"} /\ request.op = "^")
        => /\ raised = "none"
           /\ ~result.float
           /\ IF Arg1.value >= 0 /\ Arg2.value \in 0..ExponentLimit
              THEN /\ result.combo.cost = Arg1.cost + Arg2.cost
                   /\ result.exact = BigText(BigPower(Arg1.value, Arg2.value))
                   /\ result.combo.value = BigValue(BigPower(Arg1.value, Arg2.value))
              ELSE result.combo = ZeroCombo
           /\ (Arg1.value = 2 /\ Arg2.value = ExponentLimit) => result.exact = TwoToTheForty
           /\ (Arg1.value = 2 /\ Arg2.value = ExponentLimit + 1) => result.combo = ZeroCombo

\* 20!
TwentyFactorial ==
    <<"2", "4", "3", "2", "9", "0", "2", "0", "0", "8", "1", "7", "6", "6", "4", "0", "0", "0", "0">>

\* C15: "!" returns the zero sentinel iff value < 0 or value > 20; for
\* 0 <= value <= 20 it returns a record whose value is the factorial of the
\* operand (value * (value - 1)!, 0! = 1) at the operand's cost; 21 gives the
\* sentinel and 20 gives 2432902008176640000.
FactorialContract ==
    (pc = "operations.unary_operation" /\ request.op = "!")
        => /\ raised = "none"
           /\ (result.combo = ZeroCombo) <=> (Arg1.value < 0 \/ Arg1.value > 20)
           /\ Arg1.value \in 0..20 =>
                /\ result.combo.cost = Arg1.cost
                /\ result.combo.value = BigValue(BigFactorial(Arg1.value))
                /\ result.exact = BigText(BigFactorial(Arg1.value))
                /\ Arg1.value = 0 => result.exact = <<"1">>
                /\ Arg1.value > 0 =>
                     result.exact =
                        BigText(BigMul(BigFactorial(Arg1.value - 1), Arg1.value))
                /\ Arg1.value = 5 => result.combo.value = 120
                /\ Arg1.value = 20 => result.exact = TwentyFactorial
           /\ Arg1.value = 21 => result.combo = ZeroCombo

\* 20! was computed
FactorialWitness ==
    /\ pc = "operations.unary_operation"
    /\ request.op = "!"
    /\ Arg1.value = 20
    /\ result.exact = TwentyFactorial
    /\ result.combo.cost = Arg1.cost

\* some integer times b is a
Divides(b, a) ==
    \E q \in (IF a < 0 THEN a ELSE 0 - a)..(IF a < 0 THEN 0 - a ELSE a) : q * b = a

\* C16: "/" with b.value # 0 returns the zero sentinel iff a.value is not
\* evenly divisible by b.value; otherwise a record whose value times b.value
\* is a.value, at cost a.cost + b.cost; 7 by 2 gives the sentinel, 6 by 2
\* gives 3.
DivisionContract ==
    (pc = "operations.binary_operation" /\ request.op = "/" /\ Arg2.value # 0)
        => /\ raised = "none"
           /\ (result.combo = ZeroCombo) <=> ~Divides(Arg2.value, Arg1.value)
           /\ Divides(Arg2.value, Arg1.value) =>
                /\ result.combo.value * Arg2.value = Arg1.value
                /\ result.combo.cost = Arg1.cost + Arg2.cost
           /\ (Arg1.value = 7 /\ Arg2.value = 2) => result.combo = ZeroCombo
           /\ (Arg1.value = 6 /\ Arg2.value = 2) => result.combo.value = 3

\* 6 by -2 gave -3
DivisionWitness ==
    /\ pc = "operations.binary_operation"
    /\ request.op = "/"
    /\ Arg1.value = 6
    /\ Arg2.value = 0 - 2
    /\ result.combo.value = 0 - 3
    /\ result.combo.cost = Arg1.cost + Arg2.cost

\* C12: a model obtained through get_model, freshly seeded or resumed, has
\* no entry of value 0 in state, before and after any number of simulate
\* rounds, and simulate raises no division-by-zero error.
ZeroNeverInState ==
    (pc \in {"get_model", "simulate"} /\ result = "Model")
        => (0 \notin DOMAIN state /\ raised # "ZeroDivisionError")

\* the step is a simulate() call
SimulateStep == Len(returns') = Len(returns) + 1

\* the entries of state the step added or replaced
ChangedEntries == {v \in DOMAIN state' : v \notin DOMAIN state \/ state'[v] # state[v]}

\* C21: simulate() returns 0 iff the round leaves state unchanged; when
\* advance() has stopped before max_steps rounds, one more round would change
\* nothing.
ZeroIffUnchanged ==
    /\ [][SimulateStep => ((returns'[Len(returns')] = 0) <=> (state' = state))]_vars
    /\ []((pc \in {"return", "done"} /\ later = 0 /\ AdvanceCalls < max_steps)
            => simulate(Self).model.state = state)

\* advance() stopped early, after rounds that changed state
ZeroIffUnchangedWitness ==
    /\ pc = "return"
    /\ Len(returns) >= 3
    /\ Len(returns) < max_steps
    /\ returns[1] > 0
    /\ returns[Len(returns)] = 0
    /\ simulate(Self).updates = 0

\* C22: the integer simulate() returns is the number of entries of state the
\* round added or improved.
UpdatesCountChanges ==
    [][SimulateStep => returns'[Len(returns')] = Cardinality(ChangedEntries)]_vars

\* record r is an operator applied to records of recs
BuiltFrom(r, recs) ==
    \E a \in recs :
        \/ \E op \in UnaryOps : unary_operation(a, op) = r
        \/ \E b \in recs : \E op \in BinaryOps : binary_operation(a, b, op) = r

\* C23: in a simulate round every operand is a record that was in state at
\* the start of the round: the snapshot is the state the round started from,
\* every evaluated pair is a pair of its values, and every entry the round
\* added or replaced is an operator applied to records of that state, never
\* to a record accepted during the round.
SnapshotDiscipline ==
    [][SimulateStep =>
         /\ known' = SortByValue(get_valid_combos(Self))
         /\ \A t \in evaluated' : t[1] \in DOMAIN state /\ t[2] \in DOMAIN state
         /\ \A v \in ChangedEntries : BuiltFrom(state'[v], get_valid_combos(Self))]_vars

\* a second round has added entries built from records the first round added
SnapshotDisciplineWitness ==
    /\ Len(returns) = 2
    /\ returns[1] > 0
    /\ returns[2] > 0
    /\ Len(known) >= 3
    /\ Cardinality(DOMAIN state) > Len(known)
    /\ \E v \in DOMAIN state :
          /\ \A i \in 1..Len(known) : known[i].value # v
          /\ BuiltFrom(state[v], {known[i] : i \in 1..Len(known)})

\* C24: copy() returns a model with the digit, max_value and max_cost of the
\* original and an equal state mapping; afterwards a state_update or
\* state_merge on the copy leaves the state of the original unchanged, and
\* one on the original leaves the state of the copy unchanged.
CopyIndependent ==
    /\ [](pc = "copy" =>
            /\ result.other.digit = result.self.digit
            /\ result.other.max_value = result.self.max_value
            /\ result.other.max_cost = result.self.max_cost
            /\ Deref(result.heap, result.other).state = Deref(result.heap, result.self).state)
    /\ [][pc' = "other" =>
            Deref(result.heap', result.self).state = Deref(result.heap, result.self).state]_vars
    /\ [][pc' = "original" =>
            Deref(result.heap', result.other).state = Deref(result.heap, result.other).state]_vars

\* after copy(), a call changed the copy and another changed the original
CopyIndependentWitness ==
    /\ pc \in {"original", "other"}
    /\ calls = 2
    /\ Cardinality(DOMAIN Deref(result.heap, result.self).state) > 1
    /\ Cardinality(DOMAIN Deref(result.heap, result.other).state) > 1
    /\ DOMAIN Deref(result.heap, result.self).state
         # DOMAIN Deref(result.heap, result.other).state

\* Combo(value=v) for values around the bounds of the model: records built
\* without a cost, the zero sentinel among them
DefaultCostRecords ==
    {Combo(v, 0, <<>>, <<>>) : v \in {0, 1, 2, digit, max_value - 1, max_value, max_value + 1}}

\* C25: for every model with in-range ceilings, state_update returns false
\* for the zero sentinel and for any record built without an explicit cost,
\* and leaves state unchanged.
SentinelRejected ==
    (1 <= max_value /\ max_value <= ValueCeiling /\ 1 <= max_cost /\ max_cost <= CostCeiling)
        => \A c \in DefaultCostRecords \cup {ZeroCombo} :
              /\ state_update(Self, c).ret = FALSE
              /\ state_update(Self, c).model.state = state

\* a model seeded with the largest ceilings, and a record without a cost for
\* a value in range the model has no entry for
SentinelRejectedWitness ==
    /\ pc = "seed"
    /\ raised = "none"
    /\ max_value = ValueCeiling
    /\ max_cost = CostCeiling
    /\ \E c \in DefaultCostRecords :
          /\ 1 <= c.value /\ c.value <= max_value
          /\ c.value \notin DOMAIN state
          /\ ~state_update(Self, c).ret

\* C26: across state_update, state_merge and simulate calls on a seeded model
\* a value once in state stays, its cost never increases, and its record
\* changes only in a step where its cost strictly decreases.
MonotoneProgress ==
    [][\A v \in DOMAIN state :
          /\ v \in DOMAIN state'
          /\ state'[v].cost <= state[v].cost
          /\ state'[v] # state[v] => state'[v].cost < state[v].cost]_vars

\* simulate() added 2 = 1 + 1 at cost 2 and state_update then replaced it by
\* a record of cost 1
MonotoneProgressWitness ==
    /\ digit = 1
    /\ max_value = 2
    /\ max_cost = 2
    /\ calls = 2
    /\ Len(returns) = 1
    /\ returns[1] > 0
    /\ pc = "state_update"
    /\ accepted
    /\ 2 \in DOMAIN state
    /\ state[2].cost = 1
    /\ state[2].expr_full = Str(2)

\* the sum over the values 1..n of the cost kept for the value, a value
\* without an entry counting max_cost + 1
RECURSIVE CostSum(_)
CostSum(n) ==
    IF n = 0 THEN 0
    ELSE (IF n \in DOMAIN state THEN state[n].cost ELSE max_cost + 1) + CostSum(n - 1)

Potential == CostSum(max_value)

\* the simulate() calls so far that returned a count other than 0
NonZeroRounds == Cardinality({i \in 1..Len(returns) : returns[i] # 0})

\* C27: on a freshly seeded model repeated simulate() calls come to return 0:
\* a round that returns a non-zero count lowers Potential, which lies between
\* max_value and max_value * (max_cost + 1), so at most max_value * max_cost
\* rounds return a non-zero count; with every configuration tried here
\* advance() sees a round return 0 within MaxSteps rounds.
Convergence ==
    /\ [][(SimulateStep /\ returns'[Len(returns')] # 0) => Potential' < Potential]_vars
    /\ [](Potential >= max_value)
    /\ [](NonZeroRounds + Potential <= max_value * (max_cost + 1))
    /\ [](NonZeroRounds <= max_value * max_cost)
    /\ []((pc = "done" /\ max_steps = MaxSteps) =>
            \E i \in 1..AdvanceCalls : returns[i] = 0)

\* four rounds changed state and the next one returned 0
ConvergenceWitness ==
    /\ pc = "done"
    /\ later = 0
    /\ Len(returns) >= 5
    /\ NonZeroRounds = Len(returns) - 1
    /\ returns[Len(returns)] = 0
    /\ Potential < max_value * (max_cost + 1)

\* the records every operator gives on every record, and on every ordered
\* pair of records, of recs
EveryResult(recs) ==
    {unary_operation(a, op) : a \in recs, op \in UnaryOps}
    \cup {binary_operation(a, b, op) : a \in recs, b \in recs, op \in BinaryOps}

\* those of them the model m admits
Admitted(m) ==
    {r \in EveryResult(get_valid_combos(m)) :
        1 <= r.value /\ r.value <= m.max_value /\ r.cost <= m.max_cost}

\* the least number of a non-empty set of numbers
Least(costs) == CHOOSE k \in costs : \A j \in costs : k <= j

\* value -> cost after a round over every ordered pair: the least cost among
\* the entry the model has and the admitted results for the value
ExhaustiveCosts(m) ==
    [v \in (DOMAIN m.state) \cup {r.value : r \in Admitted(m)} |->
        Least((IF v \in DOMAIN m.state THEN {m.state[v].cost} ELSE {})
              \cup {r.cost : r \in {x \in Admitted(m) : x.value = v}})]

\* value -> cost of a state
CostsOf(st) == [v \in DOMAIN st |-> st[v].cost]

\* C28: from every state reachable from a fresh seed, a simulate round, which
\* evaluates + - * / for the pairs with c1.value >= c2.value only, leaves the
\* value-to-cost mapping that a round over every ordered pair leaves.
SkipLosesNothing ==
    [][SimulateStep => CostsOf(state') = ExhaustiveCosts(Self)]_vars

\* a round over a snapshot of several values has added the sum of two of
\* them that differ
SkipLosesNothingWitness ==
    /\ Len(returns) >= 2
    /\ returns[Len(returns)] > 0
    /\ \E i \in 1..Len(known) : \E j \in 1..Len(known) :
          /\ known[i].value < known[j].value
          /\ known[i].value + known[j].value \in DOMAIN state
          /\ \A n \in 1..Len(known) : known[n].value # known[i].value + known[j].value
          /\ state[known[i].value + known[j].value].cost = known[i].cost + known[j].cost

\* the model holds an entry for the value of r at a cost <= r.cost, if r is
\* within its ceilings
Covered(r) ==
    (1 <= r.value /\ r.value <= max_value /\ r.cost <= max_cost)
        => (r.value \in DOMAIN state /\ state[r.value].cost <= r.cost)

\* C29: when simulate() has returned 0, state is closed under the operators:
\* the result of each unary operator on a record of state, and of each
\* binary operator the round evaluates on a pair of records of state, if it
\* is within the ceilings, has an entry in state for its value at a cost not
\* higher.
ClosedAtFixedPoint ==
    (Len(returns) > 0 /\ returns[Len(returns)] = 0) =>
        \A a \in get_valid_combos(Self) :
            /\ \A op \in UnaryOps : Covered(unary_operation(a, op))
            /\ \A b \in get_valid_combos(Self) : \A op \in BinaryOps :
                  (op = "^" \/ a.value >= b.value) => Covered(binary_operation(a, b, op))

\* a round returned 0 on a state where an operator gives a value in range
\* that state keeps at a strictly lower cost
ClosedAtFixedPointWitness ==
    /\ Len(returns) >= 3
    /\ returns[Len(returns)] = 0
    /\ later = 0
    /\ \E a \in get_valid_combos(Self) : \E b \in get_valid_combos(Self) :
          /\ a.value >= b.value
          /\ a.value + b.value <= max_value
          /\ a.cost + b.cost <= max_cost
          /\ state[a.value + b.value].cost < a.cost + b.cost

\* get_model has resumed from a structure of the requested digit whose
\* records have values >= 1, for a digit within the requested max_value
ResumedFromMatch ==
    /\ pc = "get_model"
    /\ result = "Model"
    /\ request.input_json.kind = "json"
    /\ request.digit <= request.max_value
    /\ Model_fromdict(request.input_json.doc).exc = "none"
    /\ Model_fromdict(request.input_json.doc).digit = request.digit
    /\ \A k \in DOMAIN Model_fromdict(request.input_json.doc).state : k >= 1

\* C30: after get_model resumes from a structure whose digit matches, the
\* model's max_value and max_cost are the requested ones and every record in
\* state has 1 <= value <= max_value and cost <= max_cost.
ResumeRespectsCeilings ==
    ResumedFromMatch =>
        /\ max_value = request.max_value
        /\ max_cost = request.max_cost
        /\ \A k \in DOMAIN state :
              /\ 1 <= state[k].value
              /\ state[k].value <= max_value
              /\ state[k].cost <= max_cost

====
